---- MODULE Spec2Model ----
(***************************************************************************)
(* Model of the satellite-data-service vegetation-index core:              *)
(*   app/utils/async_helpers.py        bounded executor and semaphore      *)
(*   app/utils/gee_batch_helpers.py    batch statistics retrieval          *)
(*   app/services/google_earth_service.py                                  *)
(*        get_farm_thumbnails, get_ndvi_data(_batched),                    *)
(*        get_ndmi_data(_batched)                                          *)
(*                                                                         *)
(* Cloud cover is modelled in whole percent; an image of the remote        *)
(* catalogue is its position in the catalogue (its opaque identifier)      *)
(* and the catalogue gives its cloud cover.  Python's 0-based image index  *)
(* idx is kept 0-based; sequences are 1-based, so the unit of idx is at    *)
(* position idx + 1.                                                       *)
(***************************************************************************)
EXTENDS Integers, Sequences, FiniteSets, TLC

\* ---------------------------------------------------------------- bounds
MaxCatalog == 3
MaxTasks == 3
MaxThumbCatalog == 2
MaxCalls == 17
MaxFeatures == 3

CloudValues == {5, 10, 35}
ThumbCloudValues == {2, 29, 30, 31}
MeanValues == {-1, 0, 5, 7}
MaxCloudCoverInputs == {30, 90}
MaxImagesInputs == {2, 10}
PointsInputs == {2, 4}

\* ------------------------------------------------------ program constants
executor_max_workers == 10
gee_max_concurrent == 15
GatherLimit == 10
CloudThreshold == 30

Endpoints == {"get_ndvi_data", "get_ndmi_data",
              "get_ndvi_data_batched", "get_ndmi_data_batched"}
ParallelEndpoints == {"get_ndvi_data", "get_ndmi_data"}
BatchEndpoints == {"get_ndvi_data_batched", "get_ndmi_data_batched"}
Satellites == {"SENTINEL_2", "LANDSAT_8"}

VARIABLES
    pc,                 \* position of the request coroutine
    req,                \* the request's arguments
    image_count,        \* image_collection.size().getInfo()
    features,           \* collection_info["features"]: image ids, in order
    stats_list,         \* ndvi_stats_list / ndmi_stats_list
    component_stats_list,
    unit,               \* per-image task state, position idx + 1: "created",
                        \* "running", "returned" (the job returned its
                        \* result), "caught" (an exception was raised inside
                        \* the job and its own except clause returned None),
                        \* "raised" (the exception left the job)
    slot,               \* per-image task result (the gather's result slot)
    gather_i,           \* gather_with_limit's loop variable i
    outputs_list,       \* what gather_with_limit returned
    all_images_data,    \* the assembled image records
    response,           \* what the endpoint answers
    calls,              \* remote calls issued, per kind
    out_of_order,       \* a unit finished while a unit of lower index ran
    unit_failed,        \* a remote call inside a per-image unit raised
    permits,            \* _gee_semaphore._value
    waiting,            \* coroutines blocked in semaphore.acquire()
    queued,             \* jobs in the pool's queue, caller awaiting
    running,            \* jobs on a worker, caller awaiting
    orphaned,           \* jobs on a worker whose awaiting caller was cancelled
    completing,         \* jobs finished, caller not yet resumed (permit held)
    submitted,          \* calls made to run_in_executor_with_limit
    _executor,          \* the module global: 0 for None, else the serial
                        \* number of the ThreadPoolExecutor it holds
    _gee_semaphore,     \* the module global: 0 for None, else the serial
                        \* number of the asyncio.Semaphore it holds
    created,            \* executors and semaphores constructed so far
    discarded,          \* results of finished jobs that nobody received
    fn_in,              \* argument of a directly applied helper function
    fn_out              \* its result

vars == <<pc, req, image_count, features, stats_list, component_stats_list,
          unit, slot, gather_i, outputs_list, all_images_data, response,
          calls, out_of_order, unit_failed, permits, waiting, queued,
          running, orphaned, completing, submitted, _executor,
          _gee_semaphore, created, discarded, fn_in, fn_out>>

reqVars == <<pc, req, image_count, features, stats_list, component_stats_list,
             unit, slot, gather_i, outputs_list, all_images_data, response,
             calls, out_of_order, unit_failed>>
singletonVars == <<_executor, _gee_semaphore, created>>
execVars == <<waiting, queued, running, orphaned, completing, submitted,
              _executor, _gee_semaphore, created, discarded>>
fnVars == <<fn_in, fn_out>>

None == [kind |-> "None"]
NoCalls ==
    [k \in {"count", "info", "stats", "unit", "area", "sar_count", "boundary",
            "loop"} |-> 0]

\* ------------------------------------------------------- remote platform
Min(a, b) == IF a < b THEN a ELSE b

\* the cloud-cover filter left out of the collection expression
FilterLt_keeps_all(catalog, ids, max_cloud_cover) == ids

RECURSIVE FilterLt(_, _, _)
FilterLt(catalog, ids, max_cloud_cover) ==
    IF ids = <<>> THEN <<>>
    ELSE LET rest == FilterLt(catalog, Tail(ids), max_cloud_cover)
         IN IF catalog[Head(ids)] < max_cloud_cover
            THEN <<Head(ids)>> \o rest ELSE rest

RECURSIVE InsertByCloud(_, _, _)
InsertByCloud(catalog, id, sorted) ==
    IF sorted = <<>> THEN <<id>>
    ELSE IF catalog[id] < catalog[Head(sorted)]
         THEN <<id>> \o sorted
         ELSE <<Head(sorted)>> \o InsertByCloud(catalog, id, Tail(sorted))

RECURSIVE SortByCloud(_, _)
SortByCloud(catalog, ids) ==
    IF ids = <<>> THEN <<>>
    ELSE InsertByCloud(catalog, ids[Len(ids)],
                       SortByCloud(catalog, SubSeq(ids, 1, Len(ids) - 1)))

Limit(ids, max_images) == SubSeq(ids, 1, Min(Len(ids), max_images))

\* the collection without its .sort(cloud)
image_collection_unsorted(catalog, max_cloud_cover, max_images) ==
    Limit(FilterLt(catalog, [i \in 1..Len(catalog) |-> i], max_cloud_cover),
          max_images)

\* .filter(lt(cloud, max_cloud_cover)).sort(cloud).limit(max_images)
image_collection(catalog, max_cloud_cover, max_images) ==
    Limit(SortByCloud(catalog,
                      FilterLt(catalog, [i \in 1..Len(catalog) |-> i],
                               max_cloud_cover)),
          max_images)

\* the statistics features in the reverse of the collection's order
stats_collection_reversed(ids) ==
    [i \in 1..Len(ids) |-> [properties |-> [image_id |-> ids[Len(ids) + 1 - i]]]]

\* image_collection.map(compute_ndvi_stats): one feature per image, tagged
\* with the image id
stats_collection(ids) ==
    [i \in 1..Len(ids) |-> [properties |-> [image_id |-> ids[i]]]]

\* ----------------------------------------------------- gee_batch_helpers
\* one getInfo() per feature instead of one for the collection
batch_retrieve_statistics_per_image(coll) ==
    [getInfo |-> Len(coll),
     stats_list |-> [i \in 1..Len(coll) |-> coll[i].properties]]

\* an empty collection answered without a getInfo()
batch_retrieve_statistics_guarded(coll) ==
    [getInfo |-> IF coll = <<>> THEN 0 ELSE 1,
     stats_list |-> [i \in 1..Len(coll) |-> coll[i].properties]]

\* one getInfo() for the whole collection, then the features' properties
batch_retrieve_statistics(coll) ==
    [getInfo |-> 1, stats_list |-> [i \in 1..Len(coll) |-> coll[i].properties]]

\* ---------------------------------------------------------- async_helpers
\* async with semaphore: acquire() takes a permit without suspending when
\* one is free
Acquire(p, n) == p - n
Release(p, n) == p + n

\* every coroutine started at once whatever the limit
Chunk_everything(i, limit, n) == 1..n

\* the tasks one asyncio.gather of gather_with_limit runs together: all of
\* them when limit is None or limit >= len(coros), else coros[i : i + limit]
Chunk(i, limit, n) ==
    IF limit >= n THEN 1..n ELSE (i + 1)..Min(i + limit, n)

LastChunk(i, limit, n) == limit >= n \/ i + limit >= n

\* --------------------------------------------------- google_earth_service
NDVIEndpoints == {"get_ndvi_data", "get_ndvi_data_batched"}
IndexOf(endpoint) == IF endpoint \in NDVIEndpoints THEN "NDVI" ELSE "NDMI"

\* the image record numbered from 1 instead of from idx
image_data_one_based(idx, id, catalog, index, stats, thumb, download) ==
    [kind |-> "image", image_index |-> idx + 1, image_id |-> id,
     cloud_cover |-> catalog[id], index |-> index, stats |-> stats,
     thumbnail |-> thumb, download |-> download]

\* the record _process_single_ndvi_image compiles for image idx
image_data(idx, id, catalog, index, stats, thumb, download) ==
    [kind |-> "image", image_index |-> idx, image_id |-> id,
     cloud_cover |-> catalog[id], index |-> index, stats |-> stats,
     thumbnail |-> thumb, download |-> download]

\* every unit producing the outputs of the last candidate of the loop
UnitResult_last_candidate(endpoint, idx, id, catalog) ==
    LET last == features[Len(features)]
    IN CASE endpoint = "get_ndvi_data" ->
               image_data(idx, id, catalog, "NDVI", [image_id |-> id],
                          last, last)
         [] endpoint = "get_ndmi_data" -> None
         [] endpoint = "get_ndvi_data_batched" ->
               [kind |-> "outputs", idx |-> idx, thumbnail_url |-> last,
                download_url |-> last]
         [] endpoint = "get_ndmi_data_batched" -> [kind |-> "coroutine"]

\* what the per-image unit of the endpoint leaves in its gather slot when its
\* remote calls succeed
UnitResult(endpoint, idx, id, catalog) ==
    CASE endpoint = "get_ndvi_data" ->
            image_data(idx, id, catalog, "NDVI", [image_id |-> id], id, id)
      [] endpoint = "get_ndmi_data" ->
            \* interpret_ndmi_moisture_detailed is not defined: NameError,
            \* caught by the unit's own except clause
            None
      [] endpoint = "get_ndvi_data_batched" ->
            [kind |-> "outputs", idx |-> idx, thumbnail_url |-> id,
             download_url |-> id]
      [] endpoint = "get_ndmi_data_batched" ->
            \* generate_single_image_outputs is an async def called on a
            \* worker thread: the call returns an un-awaited coroutine object
            [kind |-> "coroutine"]

\* no unit catching its own exceptions
UnitPropagates_always(endpoint) == TRUE

\* whether a failing remote call inside the unit escapes the unit
UnitPropagates(endpoint) == endpoint = "get_ndvi_data_batched"

\* whether the unit issues remote calls that can fail at all
UnitCallsRemote(endpoint) == endpoint # "get_ndmi_data_batched"

\* the result list handed on with its None entries
FilterNone_keeps(results) == results

\* all_images_data = [img for img in all_images_data if img is not None]
RECURSIVE FilterNone(_)
FilterNone(results) ==
    IF results = <<>> THEN <<>>
    ELSE IF Head(results) = None THEN FilterNone(Tail(results))
         ELSE <<Head(results)>> \o FilterNone(Tail(results))

\* the body of the batch path's assembly loop for position k (idx = k - 1):
\* TRUE when an exception is raised inside the try block
AssembleRaises(k, stats, comps, outs, include_components) ==
    \/ k > Len(stats)
    \/ k > Len(outs)
    \/ outs[k].kind # "outputs"
    \/ include_components /\ comps # <<>> /\ k > Len(comps)

RECURSIVE Assemble(_, _, _, _, _, _, _, _)
Assemble(k, feats, catalog, index, stats, comps, outs, include_components) ==
    IF k > Len(feats) THEN <<>>
    ELSE LET rest == Assemble(k + 1, feats, catalog, index, stats, comps,
                              outs, include_components)
         IN IF AssembleRaises(k, stats, comps, outs, include_components)
            THEN rest
            ELSE <<image_data(k - 1, feats[k], catalog, index, stats[k],
                              outs[k].thumbnail_url, outs[k].download_url)>>
                 \o rest

\* the response reporting the candidates found as the images processed
Result_processed_is_total(count, images, area) ==
    [status |-> 200, total_images |-> count,
     images_processed |-> count, images |-> images, area |-> area]

\* Step 9 / Step 5: the compiled response
Result(count, images, area) ==
    [status |-> 200, total_images |-> count,
     images_processed |-> Len(images), images |-> images, area |-> area]

\* a handler answering every exception with a server error
HandlerStatus_no_client_error(exc) == 500

\* a handler answering every exception with a client error
HandlerStatus_all_client_error(exc) == 400

\* the handler's mapping of an exception to an HTTP status
HandlerStatus(exc) == IF exc = "ValueError" THEN 400 ELSE 500
ErrorResponse(exc) == [status |-> HandlerStatus(exc), error |-> exc]

\* a remote call handed to run_in_executor_with_limit: it runs on a worker
Bump(c, k) == [c EXCEPT ![k] = @ + 1]

\* a remote call the coroutine makes itself: it runs on the event-loop thread
BlockingCall(c, k) == [c EXCEPT ![k] = @ + 1, !["loop"] = @ + 1]

Init ==
    /\ pc = "idle"
    /\ req = [endpoint |-> "none"]
    /\ image_count = 0
    /\ features = <<>>
    /\ stats_list = <<>>
    /\ component_stats_list = <<>>
    /\ unit = <<>>
    /\ slot = <<>>
    /\ gather_i = 0
    /\ outputs_list = <<>>
    /\ all_images_data = <<>>
    /\ response = None
    /\ calls = NoCalls
    /\ out_of_order = FALSE
    /\ unit_failed = FALSE
    /\ permits = gee_max_concurrent
    /\ waiting = 0 /\ queued = 0 /\ running = 0 /\ orphaned = 0
    /\ completing = 0 /\ submitted = 0
    /\ _executor = 0 /\ _gee_semaphore = 0
    /\ created = [executor |-> 0, semaphore |-> 0]
    /\ discarded = 0
    /\ fn_in = <<>> /\ fn_out = None

Catalogs == UNION {[1..n -> CloudValues] : n \in 0..MaxCatalog}

\* the handlers that check the region before calling the service:
\* get_ndmi (len(coords_list) < 3) does, get_ndvi_batch and get_ndmi_batch do
\* not, and get_ndvi_data is entered here by a caller that awaits it
HandlerChecksPoints(endpoint) == endpoint = "get_ndmi_data"

\* not isinstance(coords_list, list) or len(coords_list) < 3
TooFewPoints(points) == points < 3

\* what the platform can resolve: a polygon needs three points and the
\* filterDate bounds must parse; the service itself checks neither
PlatformAccepts(r) == ~TooFewPoints(r.points) /\ r.date_ok

\* a request enters get_*_data: the collection expression is built and the
\* count call is dispatched
Request ==
    /\ pc = "idle"
    /\ \E e \in Endpoints, cat \in Catalogs, mcc \in MaxCloudCoverInputs,
          mi \in MaxImagesInputs, ic \in BOOLEAN, pts \in PointsInputs,
          date_ok \in BOOLEAN :
          /\ req' = [endpoint |-> e, catalog |-> cat, max_cloud_cover |-> mcc,
                     max_images |-> mi, include_components |-> ic,
                     points |-> pts, date_ok |-> date_ok]
          /\ IF HandlerChecksPoints(e) /\ TooFewPoints(pts)
             THEN /\ pc' = "error"
                  /\ response' = ErrorResponse("ValueError")
                  /\ UNCHANGED <<permits, calls>>
             ELSE /\ permits' = Acquire(permits, 1)
                  /\ calls' = Bump(calls, "count")
                  /\ pc' = "count"
                  /\ UNCHANGED response
    /\ UNCHANGED <<image_count, features, stats_list, component_stats_list,
                   unit, slot, gather_i, outputs_list, all_images_data>>
    /\ UNCHANGED <<out_of_order, unit_failed>>
    /\ UNCHANGED execVars /\ UNCHANGED fnVars

\* image_collection.size().getInfo() returns or raises
CountReturns ==
    /\ pc = "count"
    /\ \E ok \in (IF PlatformAccepts(req) THEN BOOLEAN ELSE {FALSE}) :
         LET n == Len(image_collection(req.catalog, req.max_cloud_cover,
                                       req.max_images))
         IN IF ~ok
            THEN /\ pc' = "error"
                 /\ response' = ErrorResponse("EEException")
                 /\ permits' = Release(permits, 1)
                 /\ UNCHANGED <<image_count, calls>>
            ELSE IF n = 0
            THEN /\ image_count' = n
                 /\ pc' = "error"
                 /\ response' = ErrorResponse("ValueError")
                 /\ permits' = Release(permits, 1)
                 /\ UNCHANGED calls
            ELSE /\ image_count' = n
                 /\ pc' = "info"
                 /\ calls' = Bump(calls, "info")
                 /\ permits' = Acquire(Release(permits, 1), 1)
                 /\ UNCHANGED response
    /\ UNCHANGED <<req, features, stats_list, component_stats_list, unit,
                   slot, gather_i, outputs_list, all_images_data>>
    /\ UNCHANGED <<out_of_order, unit_failed>>
    /\ UNCHANGED execVars /\ UNCHANGED fnVars

\* gather_with_limit(*tasks, limit=10) starts its first asyncio.gather
StartGather(n, issued) ==
    LET first == Chunk(0, GatherLimit, n)
    IN /\ unit' = [k \in 1..n |-> IF k \in first THEN "running"
                                   ELSE "created"]
       /\ slot' = [k \in 1..n |-> None]
       /\ gather_i' = 0
       /\ calls' = [issued EXCEPT !["unit"] = @ + Cardinality(first)]
       /\ permits' = Acquire(Release(permits, 1), Cardinality(first))
       /\ pc' = "gather"

\* image_collection.getInfo() returns or raises
InfoReturns ==
    /\ pc = "info"
    /\ \E ok \in BOOLEAN :
         LET ids == image_collection(req.catalog, req.max_cloud_cover,
                                     req.max_images)
         IN IF ~ok
            THEN /\ pc' = "error"
                 /\ response' = ErrorResponse("EEException")
                 /\ permits' = Release(permits, 1)
                 /\ UNCHANGED <<features, unit, slot, gather_i, calls>>
            ELSE IF req.endpoint \in ParallelEndpoints
            THEN /\ features' = ids
                 /\ StartGather(Len(ids), calls)
                 /\ UNCHANGED response
            ELSE /\ features' = ids
                 /\ pc' = "stats"
                 /\ permits' = Acquire(Release(permits, 1), 1)
                 /\ UNCHANGED <<unit, slot, gather_i, calls, response>>
    /\ UNCHANGED <<req, image_count, stats_list, component_stats_list,
                   outputs_list, all_images_data>>
    /\ UNCHANGED <<out_of_order, unit_failed>>
    /\ UNCHANGED execVars /\ UNCHANGED fnVars

\* batch_retrieve_statistics(ndvi_stats_fc) returns or raises on its worker
StatsReturns ==
    /\ pc = "stats"
    /\ \E ok \in BOOLEAN :
         LET r == batch_retrieve_statistics(stats_collection(features))
             issued == [calls EXCEPT !["stats"] = @ + r.getInfo]
         IN IF ~ok
            THEN /\ pc' = "error"
                 /\ response' = ErrorResponse("EEException")
                 /\ permits' = Release(permits, 1)
                 /\ calls' = issued
                 /\ UNCHANGED <<stats_list, unit, slot, gather_i>>
            ELSE IF req.include_components
            THEN /\ stats_list' = r.stats_list
                 /\ pc' = "component_stats"
                 /\ permits' = Acquire(Release(permits, 1), 1)
                 /\ calls' = issued
                 /\ UNCHANGED <<unit, slot, gather_i, response>>
            ELSE /\ stats_list' = r.stats_list
                 /\ StartGather(Len(features), issued)
                 /\ UNCHANGED response
    /\ UNCHANGED <<req, image_count, features, component_stats_list,
                   outputs_list, all_images_data>>
    /\ UNCHANGED <<out_of_order, unit_failed>>
    /\ UNCHANGED execVars /\ UNCHANGED fnVars

\* batch_retrieve_statistics(component_stats_fc) returns or raises
ComponentStatsReturns ==
    /\ pc = "component_stats"
    /\ \E ok \in BOOLEAN :
         LET r == batch_retrieve_statistics(stats_collection(features))
             issued == [calls EXCEPT !["stats"] = @ + r.getInfo]
         IN IF ~ok
            THEN /\ pc' = "error"
                 /\ response' = ErrorResponse("EEException")
                 /\ permits' = Release(permits, 1)
                 /\ calls' = issued
                 /\ UNCHANGED <<component_stats_list, unit, slot, gather_i>>
            ELSE /\ component_stats_list' = r.stats_list
                 /\ StartGather(Len(features), issued)
                 /\ UNCHANGED response
    /\ UNCHANGED <<req, image_count, features, stats_list, outputs_list,
                   all_images_data>>
    /\ UNCHANGED <<out_of_order, unit_failed>>
    /\ UNCHANGED execVars /\ UNCHANGED fnVars

\* unit k finishes while a unit of lower index is still on its worker
OvertakesLower(k) == \E j \in 1..(k - 1) : unit[j] = "running"

\* the remote calls of the worker job of image idx = k - 1 succeed and the
\* job runs to its end; its task stores what the job returned in its slot
UnitReturns(k) ==
    /\ k \in DOMAIN unit
    /\ unit[k] = "running"
    /\ LET result == UnitResult(req.endpoint, k - 1, features[k], req.catalog)
       IN /\ slot' = [slot EXCEPT ![k] = result]
          /\ unit' = [unit EXCEPT ![k] = IF result = None THEN "caught"
                                         ELSE "returned"]
    /\ permits' = Release(permits, 1)
    /\ UNCHANGED <<pc, req, image_count, features, stats_list,
                   component_stats_list, gather_i, outputs_list,
                   all_images_data, response, calls>>
    /\ out_of_order' = (out_of_order \/ OvertakesLower(k))
    /\ UNCHANGED unit_failed
    /\ UNCHANGED execVars /\ UNCHANGED fnVars

\* a remote call inside the worker job of image idx = k - 1 raises
UnitRaises(k) ==
    /\ k \in DOMAIN unit
    /\ unit[k] = "running"
    /\ UnitCallsRemote(req.endpoint)
    /\ permits' = Release(permits, 1)
    /\ IF UnitPropagates(req.endpoint)
       THEN \* asyncio.gather without return_exceptions: the first exception
            \* is raised to the awaiting request, the siblings keep running
            /\ unit' = [unit EXCEPT ![k] = "raised"]
            /\ slot' = [slot EXCEPT ![k] = [kind |-> "exception"]]
            /\ IF pc = "gather"
               THEN /\ pc' = "error"
                    /\ response' = ErrorResponse("EEException")
               ELSE UNCHANGED <<pc, response>>
       ELSE \* except Exception: log and return None
            /\ unit' = [unit EXCEPT ![k] = "caught"]
            /\ slot' = [slot EXCEPT ![k] = None]
            /\ UNCHANGED <<pc, response>>
    /\ UNCHANGED <<req, image_count, features, stats_list,
                   component_stats_list, gather_i, outputs_list,
                   all_images_data, calls>>
    /\ out_of_order' = (out_of_order \/ OvertakesLower(k))
    /\ unit_failed' = TRUE
    /\ UNCHANGED execVars /\ UNCHANGED fnVars

\* the asyncio.gather of the current chunk completes: the next chunk is
\* started, or the result list is assembled and the area call dispatched
GatherDone ==
    /\ pc = "gather"
    /\ \A k \in Chunk(gather_i, GatherLimit, Len(unit)) :
         unit[k] \in {"returned", "caught"}
    /\ IF LastChunk(gather_i, GatherLimit, Len(unit))
       THEN /\ outputs_list' = slot
            /\ all_images_data' =
                 IF req.endpoint \in ParallelEndpoints
                 THEN FilterNone(slot)
                 ELSE Assemble(1, features, req.catalog,
                               IndexOf(req.endpoint), stats_list,
                               component_stats_list, slot,
                               req.include_components)
            /\ pc' = "area"
            /\ calls' = Bump(calls, "area")
            /\ permits' = Acquire(permits, 1)
            /\ UNCHANGED <<unit, gather_i>>
       ELSE LET next == Chunk(gather_i + GatherLimit, GatherLimit, Len(unit))
            IN /\ gather_i' = gather_i + GatherLimit
               /\ unit' = [k \in DOMAIN unit |->
                             IF k \in next THEN "running" ELSE unit[k]]
               /\ calls' = [calls EXCEPT !["unit"] = @ + Cardinality(next)]
               /\ permits' = Acquire(permits, Cardinality(next))
               /\ UNCHANGED <<pc, outputs_list, all_images_data>>
    /\ UNCHANGED <<req, image_count, features, stats_list,
                   component_stats_list, slot, response>>
    /\ UNCHANGED <<out_of_order, unit_failed>>
    /\ UNCHANGED execVars /\ UNCHANGED fnVars

\* farm_geometry.area(...).getInfo() returns or raises; the response is
\* compiled either way
AreaReturns ==
    /\ pc = "area"
    /\ \E ok \in BOOLEAN :
         response' = Result(image_count, all_images_data,
                            IF ok THEN "hectares" ELSE "None")
    /\ pc' = "done"
    /\ permits' = Release(permits, 1)
    /\ UNCHANGED <<req, image_count, features, stats_list,
                   component_stats_list, unit, slot, gather_i, outputs_list,
                   all_images_data, calls>>
    /\ UNCHANGED <<out_of_order, unit_failed>>
    /\ UNCHANGED execVars /\ UNCHANGED fnVars

\* ------------------------------------------------- get_farm_thumbnails
\* Step 2: the property the collection is filtered and sorted by, and the
\* metadata field the cloud cover is read from
cloud_cover_prop(satellite) ==
    IF satellite = "SENTINEL_2" THEN "CLOUDY_PIXEL_PERCENTAGE" ELSE "CLOUD_COVER"

metadata_fields_cloud(satellite) ==
    IF satellite = "SENTINEL_2" THEN "CLOUDY_PIXEL_PERCENTAGE" ELSE "CLOUD_COVER"

\* best_image.toDictionary().getInfo() for an image of the satellite's
\* collection: the collection carries its cloud cover under its own field
image_properties(satellite, cloud) ==
    [f \in {cloud_cover_prop(satellite)} |-> cloud]

\* dict.get(key, default)
DictGet(d, key, default) == IF key \in DOMAIN d THEN d[key] ELSE default

\* the threshold taken as exclusive
use_sar_backup_exclusive(force_sar_backup, cloud_cover) ==
    force_sar_backup \/ cloud_cover > CloudThreshold

\* Cloud-adaptive logic: force_sar_backup or cloud_cover >= 30.0
use_sar_backup(force_sar_backup, cloud_cover) ==
    force_sar_backup \/ cloud_cover >= CloudThreshold

\* vegetation_index_strategy of the response
vegetation_index_strategy(force_sar_backup, cloud_cover) ==
    LET sar == use_sar_backup(force_sar_backup, cloud_cover)
    IN [cloud_threshold |-> CloudThreshold,
        actual_cloud_cover |-> cloud_cover,
        selected_index |-> IF sar THEN "RVI (SAR)" ELSE "NDVI (Optical)",
        reason |-> IF sar /\ ~force_sar_backup THEN "cloud >= 30"
                   ELSE IF force_sar_backup THEN "Forced SAR mode"
                   ELSE "cloud < 30"]

\* a radar search without scenes taken for a usable one
SarSearchFails_never(sar_count) == FALSE

\* if sar_count == 0: raise ValueError("No Sentinel-1 SAR images found ...")
SarSearchFails(sar_count) == sar_count = 0

ThumbCatalogs == UNION {[1..n -> ThumbCloudValues] : n \in 0..MaxThumbCatalog}

\* get_farm_thumbnails runs synchronously inside its handler; the handlers
\* that call it answer 500 to every exception
GetFarmThumbnails ==
    /\ pc = "idle"
    /\ \E sat \in Satellites, cat \in ThumbCatalogs,
          mcc \in MaxCloudCoverInputs, force \in BOOLEAN, sar_count \in 0..1 :
         LET ids == image_collection(cat, mcc, Len(cat))
             cloud_cover == DictGet(image_properties(sat, cat[Head(ids)]),
                                    metadata_fields_cloud(sat), 0)
             strategy == vegetation_index_strategy(force, cloud_cover)
             sar == use_sar_backup(force, cloud_cover)
         IN /\ req' = [endpoint |-> "get_farm_thumbnails", satellite |-> sat,
                       catalog |-> cat, max_cloud_cover |-> mcc,
                       force_sar_backup |-> force, sar_count |-> sar_count]
            /\ image_count' = Len(ids)
            /\ IF Len(ids) = 0
               THEN /\ response' = [status |-> 500, error |-> "ValueError"]
                    /\ calls' = BlockingCall(calls, "count")
                    /\ pc' = "error"
               ELSE IF sar /\ SarSearchFails(sar_count)
               THEN /\ response' = [status |-> 500, error |-> "ValueError"]
                    /\ calls' = BlockingCall(BlockingCall(calls, "count"),
                                              "sar_count")
                    /\ pc' = "error"
               ELSE /\ response' =
                         [status |-> 200,
                          vegetation_index_strategy |-> strategy,
                          index_type |-> IF sar THEN "RVI" ELSE "NDVI",
                          cloud_cover |-> cloud_cover]
                    /\ calls' = IF sar
                                THEN BlockingCall(BlockingCall(calls, "count"),
                                                  "sar_count")
                                ELSE BlockingCall(calls, "count")
                    /\ pc' = "done"
    /\ UNCHANGED <<features, stats_list, component_stats_list, unit, slot,
                   gather_i, outputs_list, all_images_data, permits>>
    /\ UNCHANGED <<out_of_order, unit_failed>>
    /\ UNCHANGED execVars /\ UNCHANGED fnVars

\* ------------------------------------------- get_satellite_image_for_farm
\* Step 3: .filter(ee.Filter.lt("CLOUD_COVER", max_cloud_cover))
\* .sort("CLOUD_COVER") for every satellite of collection_map; an image
\* whose properties lack the filtered field does not match the filter
satellite_image_collection(satellite, cat, max_cloud_cover) ==
    LET matching == SelectSeq([i \in 1..Len(cat) |-> i],
                     LAMBDA i : /\ "CLOUD_COVER" \in
                                     DOMAIN image_properties(satellite, cat[i])
                                /\ cat[i] < max_cloud_cover)
    IN SortByCloud(cat, matching)

\* get_satellite_image_for_farm: search, ValueError on an empty search,
\* otherwise the least cloudy image with
\* "cloud_cover": image_properties.get("CLOUD_COVER", 0)
GetSatelliteImageForFarm ==
    /\ pc = "idle"
    /\ \E sat \in Satellites, cat \in ThumbCatalogs,
          mcc \in MaxCloudCoverInputs :
         LET ids == satellite_image_collection(sat, cat, mcc)
         IN /\ req' = [endpoint |-> "get_satellite_image_for_farm",
                       satellite |-> sat, catalog |-> cat,
                       max_cloud_cover |-> mcc]
            /\ image_count' = Len(ids)
            /\ calls' = [calls EXCEPT !["count"] = @ + 1]
            /\ IF Len(ids) = 0
               THEN /\ response' = [error |-> "ValueError"]
                    /\ pc' = "error"
               ELSE /\ response' =
                         [satellite |-> sat,
                          cloud_cover |->
                            DictGet(image_properties(sat, cat[Head(ids)]),
                                    "CLOUD_COVER", 0),
                          images_found |-> Len(ids)]
                    /\ pc' = "done"
    /\ UNCHANGED <<features, stats_list, component_stats_list, unit, slot,
                   gather_i, outputs_list, all_images_data, permits>>
    /\ UNCHANGED <<out_of_order, unit_failed>>
    /\ UNCHANGED execVars /\ UNCHANGED fnVars

\* ------------------------------------------------------ the get_ndvi handler
\* the service methods whose handler awaits them: get_ndvi_batch,
\* get_ndmi_batch and get_ndmi do, get_ndvi does not
AwaitedEndpoints == Endpoints \ {"get_ndvi_data"}

\* get_ndvi checks the region, then calls get_ndvi_data without await: the
\* coroutine object it gets is never run, and result['summary'] on it raises
\* TypeError, which the handler answers with 500
GetNdviHandler ==
    /\ pc = "idle"
    /\ \E pts \in PointsInputs, date_ok \in BOOLEAN :
         /\ req' = [endpoint |-> "get_ndvi", points |-> pts,
                    date_ok |-> date_ok]
         /\ response' = IF TooFewPoints(pts) THEN ErrorResponse("ValueError")
                        ELSE ErrorResponse("TypeError")
    /\ pc' = "error"
    /\ UNCHANGED <<image_count, features, stats_list, component_stats_list,
                   unit, slot, gather_i, outputs_list, all_images_data, calls,
                   permits>>
    /\ UNCHANGED <<out_of_order, unit_failed>>
    /\ UNCHANGED execVars /\ UNCHANGED fnVars

\* ------------------------------------------- boundary-detection endpoints
BoundaryEndpoints == {"detect_farm_boundary_from_point"}

\* latitude: Query(..., ge=-90, le=90), checked by the framework before the
\* handler body runs
LatitudeInputs == {10, 91}
QueryValid(latitude) == -90 <= latitude /\ latitude <= 90

\* every failure answered with the zero-imagery failure's exception and text
BoundaryFailure_generic(cause) ==
    [exc |-> "ValueError", detail |-> "No cloud-free imagery found"]

\* the exception detect_farm_boundary_from_point raises for each cause of
\* failure, and its message
BoundaryFailure(cause) ==
    CASE cause = "no_imagery" ->
            [exc |-> "ValueError", detail |-> "No cloud-free imagery found"]
      [] cause = "no_field" ->
            [exc |-> "ValueError",
             detail |-> "No agricultural field detected at point"]
      [] cause = "platform" ->
            [exc |-> "Exception", detail |-> "Earth Engine API error"]

\* raise HTTPException(status_code=..., detail=str(e))
BoundaryErrorResponse(cause) ==
    LET f == BoundaryFailure(cause)
    IN [status |-> HandlerStatus(f.exc), error |-> f.exc, detail |-> f.detail]

\* detect_boundary_from_point: the async handler calls the synchronous
\* detect_farm_boundary_from_point itself, so every getInfo()/getThumbURL() of
\* it runs to its end before the handler yields
DetectBoundaryFromPoint ==
    /\ pc = "idle"
    /\ \E cat \in ThumbCatalogs, mcc \in MaxCloudCoverInputs,
          field_found \in BOOLEAN, lat \in LatitudeInputs,
          platform_ok \in BOOLEAN :
         LET n == Len(image_collection(cat, mcc, Len(cat)))
             counted == BlockingCall(calls, "count")
             labelled == BlockingCall(counted, "boundary")
         IN /\ req' = [endpoint |-> "detect_farm_boundary_from_point",
                       catalog |-> cat, max_cloud_cover |-> mcc,
                       field_found |-> field_found, latitude |-> lat,
                       platform_ok |-> platform_ok]
            /\ IF ~QueryValid(lat)
               THEN /\ response' = [status |-> 422,
                                    error |-> "RequestValidationError",
                                    detail |-> "latitude"]
                    /\ UNCHANGED <<calls, image_count>>
                    /\ pc' = "error"
               ELSE IF ~platform_ok
               THEN /\ response' = BoundaryErrorResponse("platform")
                    /\ calls' = counted
                    /\ UNCHANGED image_count
                    /\ pc' = "error"
               ELSE IF n = 0
               THEN /\ response' = BoundaryErrorResponse("no_imagery")
                    /\ calls' = counted
                    /\ image_count' = n
                    /\ pc' = "error"
               ELSE IF ~field_found
               THEN /\ response' = BoundaryErrorResponse("no_field")
                    /\ calls' = labelled
                    /\ image_count' = n
                    /\ pc' = "error"
               ELSE /\ response' = [status |-> 200, boundary |-> "Feature"]
                    /\ calls' = BlockingCall(labelled, "area")
                    /\ image_count' = n
                    /\ pc' = "done"
    /\ UNCHANGED <<features, stats_list, component_stats_list, unit, slot,
                   gather_i, outputs_list, all_images_data, permits>>
    /\ UNCHANGED <<out_of_order, unit_failed>>
    /\ UNCHANGED execVars /\ UNCHANGED fnVars

Next ==
    \/ Request
    \/ CountReturns
    \/ InfoReturns
    \/ StatsReturns
    \/ ComponentStatsReturns
    \/ \E k \in 1..(MaxCatalog + 1) : UnitReturns(k)
    \/ \E k \in 1..(MaxCatalog + 1) : UnitRaises(k)
    \/ GatherDone
    \/ AreaReturns
    \/ GetFarmThumbnails
    \/ GetSatelliteImageForFarm
    \/ DetectBoundaryFromPoint
    \/ GetNdviHandler

Spec == Init /\ [][Next]_vars

\* ------------------------------------------- the executor under load
\* Calls of run_in_executor_with_limit by any number of coroutines of any
\* requests, counted by the stage they are in.

reqIdle == UNCHANGED reqVars /\ UNCHANGED fnVars

\* a step that calls neither get_executor nor get_semaphore
poolIdle == reqIdle /\ UNCHANGED singletonVars

\* an executor constructed on every call
get_executor_fresh(obj, n) == [obj |-> n + 1, n |-> n + 1]

\* get_executor: construct the pool if the global is None, return the global
get_executor(obj, n) ==
    IF obj = 0 THEN [obj |-> n + 1, n |-> n + 1] ELSE [obj |-> obj, n |-> n]

\* get_semaphore: construct the semaphore if the global is None, return the
\* global
get_semaphore(obj, n) ==
    IF obj = 0 THEN [obj |-> n + 1, n |-> n + 1] ELSE [obj |-> obj, n |-> n]

\* a coroutine enters run_in_executor_with_limit: with a free permit and no
\* earlier waiter, acquire() returns at once and the job is handed to the
\* pool; otherwise the coroutine waits in acquire()
Submit ==
    /\ submitted < MaxCalls
    /\ submitted' = submitted + 1
    /\ LET sem == get_semaphore(_gee_semaphore, created.semaphore)
           ex == get_executor(_executor, created.executor)
       IN /\ _gee_semaphore' = sem.obj
          /\ IF permits > 0 /\ waiting = 0
             THEN /\ permits' = Acquire(permits, 1)
                  /\ queued' = queued + 1
                  /\ _executor' = ex.obj
                  /\ created' = [executor |-> ex.n, semaphore |-> sem.n]
                  /\ UNCHANGED waiting
             ELSE /\ waiting' = waiting + 1
                  /\ created' = [created EXCEPT !.semaphore = sem.n]
                  /\ UNCHANGED <<permits, queued, _executor>>
    /\ UNCHANGED <<running, orphaned, completing, discarded>>
    /\ reqIdle

\* release() woke the first waiter: it takes the permit and dispatches
WaiterAcquires ==
    /\ waiting > 0
    /\ permits > 0
    /\ waiting' = waiting - 1
    /\ permits' = Acquire(permits, 1)
    /\ queued' = queued + 1
    /\ LET ex == get_executor(_executor, created.executor)
       IN /\ _executor' = ex.obj
          /\ created' = [created EXCEPT !.executor = ex.n]
    /\ UNCHANGED <<running, orphaned, completing, submitted, discarded,
                   _gee_semaphore>>
    /\ reqIdle

\* a worker of the pool (max_workers = 10) takes a job from the queue
WorkerStarts ==
    /\ queued > 0
    /\ running + orphaned < executor_max_workers
    /\ queued' = queued - 1
    /\ running' = running + 1
    /\ UNCHANGED <<permits, waiting, orphaned, completing, submitted>>
    /\ UNCHANGED discarded /\ poolIdle

\* the blocking function returns or raises on its worker
WorkerFinishes ==
    /\ running > 0
    /\ running' = running - 1
    /\ completing' = completing + 1
    /\ UNCHANGED <<permits, waiting, queued, orphaned, submitted>>
    /\ UNCHANGED discarded /\ poolIdle

\* the permit kept when the function raised
CallerResumes_leaks_on_raise ==
    /\ completing > 0
    /\ completing' = completing - 1
    /\ \E raised \in BOOLEAN :
         permits' = IF raised THEN permits ELSE Release(permits, 1)
    /\ UNCHANGED <<waiting, queued, running, orphaned, submitted>>
    /\ UNCHANGED discarded /\ poolIdle

\* the awaiting coroutine is resumed with the result or the exception and
\* leaves the async with block
CallerResumes ==
    /\ completing > 0
    /\ completing' = completing - 1
    /\ permits' = Release(permits, 1)
    /\ UNCHANGED <<waiting, queued, running, orphaned, submitted>>
    /\ UNCHANGED discarded /\ poolIdle

\* the awaiting coroutine is cancelled while it waits in acquire()
CancelWaiting ==
    /\ waiting > 0
    /\ waiting' = waiting - 1
    /\ UNCHANGED <<permits, queued, running, orphaned, completing, submitted>>
    /\ UNCHANGED discarded /\ poolIdle

\* the awaiting coroutine is cancelled while its job is still in the queue:
\* the pool's future is cancelled with it, the job never runs, and leaving
\* the async with block releases the permit
CancelQueued ==
    /\ queued > 0
    /\ queued' = queued - 1
    /\ permits' = Release(permits, 1)
    /\ UNCHANGED <<waiting, running, orphaned, completing, submitted>>
    /\ UNCHANGED discarded /\ poolIdle

\* the awaiting coroutine is cancelled while its job runs on a worker: a
\* running job cannot be cancelled and goes on, and leaving the async with
\* block releases the permit
CancelRunning ==
    /\ running > 0
    /\ running' = running - 1
    /\ orphaned' = orphaned + 1
    /\ permits' = Release(permits, 1)
    /\ UNCHANGED <<waiting, queued, completing, submitted>>
    /\ UNCHANGED discarded /\ poolIdle

\* an abandoned job's result handed to a waiting caller
OrphanFinishes_delivered ==
    /\ orphaned > 0
    /\ orphaned' = orphaned - 1
    /\ completing' = completing + 1
    /\ UNCHANGED <<permits, waiting, queued, running, submitted, discarded>>
    /\ poolIdle

\* an abandoned job finishes; nobody awaits its result
OrphanFinishes ==
    /\ orphaned > 0
    /\ orphaned' = orphaned - 1
    /\ discarded' = discarded + 1
    /\ UNCHANGED <<permits, waiting, queued, running, completing, submitted>>
    /\ poolIdle

NextExec ==
    \/ Submit
    \/ WaiterAcquires
    \/ WorkerStarts
    \/ WorkerFinishes
    \/ CallerResumes
    \/ CancelWaiting
    \/ CancelQueued
    \/ CancelRunning
    \/ OrphanFinishes

SpecExec == Init /\ [][NextExec]_vars

\* The same calls under the scheduling the runtime gives: the event loop
\* resumes every coroutine that is ready (WaiterAcquires, CallerResumes), an
\* idle worker of the pool takes the next queued job (WorkerStarts), and
\* every blocking function eventually returns or raises (WorkerFinishes,
\* OrphanFinishes).
SpecExecFair ==
    /\ Init /\ [][NextExec]_vars
    /\ WF_vars(WaiterAcquires)
    /\ WF_vars(WorkerStarts)
    /\ WF_vars(WorkerFinishes)
    /\ WF_vars(OrphanFinishes)
    /\ WF_vars(CallerResumes)

\* remote calls dispatched to the worker pool and not yet completed
InFlight == queued + running + orphaned

\* --------------------------------------- helper functions applied directly
Features ==
    [properties : [image_id : 1..MaxFeatures, NDVI_mean : MeanValues]]

FeatureCollections == UNION {[1..n -> Features] : n \in 0..MaxFeatures}

\* batch_retrieve_statistics(stats_collection) on any collection
CallBatchRetrieveStatistics ==
    /\ fn_out = None
    /\ \E coll \in FeatureCollections :
         /\ fn_in' = coll
         /\ fn_out' = batch_retrieve_statistics(coll)
    /\ UNCHANGED reqVars /\ UNCHANGED permits /\ UNCHANGED execVars

NextFn == CallBatchRetrieveStatistics

SpecFn == Init /\ [][NextFn]_vars

\* ------------------------------- interpretation functions applied directly
\* Index means and standard deviations are in tenths (mean 0.8 is 8), areas in
\* whole hectares; the confidence score is in 400ths (1.0 is 400), the common
\* denominator of mean/0.8 * 0.5, (1 - std/0.3) * 0.3 and area/10 * 0.2.
MeanTenths == -10..10
StdTenths == 0..5
AreaHectares == {0, 5, 10, 12}

Max(a, b) == IF a > b THEN a ELSE b

\* ndvi_confidence = min(mean_ndvi / 0.8, 1.0), in 8ths
ndvi_confidence(mean) == Min(mean, 8)

\* uniformity_confidence = max(1.0 - (std_ndvi / 0.3), 0), in 3rds
uniformity_confidence(std) == Max(3 - std, 0)

\* size_confidence = min(area_hectares / 10.0, 1.0), in 10ths
size_confidence(area) == Min(area, 10)

\* confidence_score = ndvi*0.5 + uniformity*0.3 + size*0.2, in 400ths
confidence_score(mean, std, area) ==
    25 * ndvi_confidence(mean) + 40 * uniformity_confidence(std)
      + 8 * size_confidence(area)

\* the breakpoints taken as inclusive lower bounds
interpret_ndvi_health_inclusive(mean) ==
    IF mean >= 6 THEN "Very healthy vegetation"
    ELSE IF mean >= 4 THEN "Healthy vegetation"
    ELSE IF mean >= 2 THEN "Moderate vegetation"
    ELSE IF mean >= 0 THEN "Sparse vegetation"
    ELSE "No vegetation / Water / Bare soil"

\* gee_batch_helpers.interpret_ndvi_health
interpret_ndvi_health(mean) ==
    IF mean > 6 THEN "Very healthy vegetation"
    ELSE IF mean > 4 THEN "Healthy vegetation"
    ELSE IF mean > 2 THEN "Moderate vegetation"
    ELSE IF mean > 0 THEN "Sparse vegetation"
    ELSE "No vegetation / Water / Bare soil"

\* the if/elif chain inside _process_single_ndvi_image
vegetation_health(mean) ==
    IF mean > 6 THEN "Very healthy vegetation"
    ELSE IF mean > 4 THEN "Healthy vegetation"
    ELSE IF mean > 2 THEN "Moderate vegetation"
    ELSE IF mean > 0 THEN "Sparse vegetation"
    ELSE "No vegetation / Water / Bare soil"

\* GEEBoundaryDetectionService._interpret_ndvi
interpret_ndvi(mean) ==
    IF mean > 6 THEN "Very healthy vegetation"
    ELSE IF mean > 4 THEN "Healthy vegetation"
    ELSE IF mean > 2 THEN "Moderate vegetation"
    ELSE IF mean > 0 THEN "Sparse vegetation"
    ELSE "No vegetation / Water / Bare soil"

\* Step 14 of detect_farm_boundary_from_point on any statistics and area
CallConfidenceScore ==
    /\ fn_out = None
    /\ \E mean \in MeanTenths, std \in StdTenths, area \in AreaHectares :
         /\ fn_in' = [fn |-> "confidence_score", mean |-> mean, std |-> std,
                      area |-> area]
         /\ fn_out' = [confidence_score |-> confidence_score(mean, std, area)]
    /\ UNCHANGED reqVars /\ UNCHANGED permits /\ UNCHANGED execVars

\* the three interpretations of one mean NDVI
CallInterpretHealth ==
    /\ fn_out = None
    /\ \E mean \in MeanTenths :
         /\ fn_in' = [fn |-> "interpret", mean |-> mean]
         /\ fn_out' = [batch |-> interpret_ndvi_health(mean),
                       parallel |-> vegetation_health(mean),
                       boundary |-> interpret_ndvi(mean)]
    /\ UNCHANGED reqVars /\ UNCHANGED permits /\ UNCHANGED execVars

NextInterp ==
    \/ CallConfidenceScore
    \/ CallInterpretHealth

SpecInterp == Init /\ [][NextInterp]_vars

\* ------------------------------------- gather_with_limit applied directly
\* gather_with_limit(*coros, limit, return_exceptions) on n coroutines that
\* each return or raise.  unit[k] is the state of coroutine k ("created": not
\* yet wrapped in a task), slot[k] its outcome, outputs_list the function's
\* local results, response what the caller of gather_with_limit gets.

\* limit is None or limit >= len(coros)
SingleGather(limit_is_none, limit, n) == limit_is_none \/ limit >= n

\* the coroutines handed to the asyncio.gather that starts at loop index i
GatherChunk(i, call) ==
    IF SingleGather(call.limit_is_none, call.limit, call.n) THEN 1..call.n
    ELSE Chunk(i, call.limit, call.n)

GatherLast(i, call) ==
    \/ SingleGather(call.limit_is_none, call.limit, call.n)
    \/ LastChunk(i, call.limit, call.n)

\* an exception of a child raised out of the gather, whatever the flag
GatherPropagates_always(return_exceptions) == TRUE

\* asyncio.gather(..., return_exceptions=return_exceptions): the first
\* exception of a child is raised to the awaiting caller unless the flag is set
GatherPropagates(return_exceptions) == ~return_exceptions

\* a gather that cancels its other children when one of them raises
SiblingAfterRaise_cancelled(state) ==
    IF state = "running" THEN "cancelled" ELSE state

\* what asyncio.gather does to its other children when one of them raises
\* and the exception is propagated: nothing, they are left as they are
SiblingAfterRaise(state) == state

\* the slots of the chunk that starts at loop index i, in input order
RECURSIVE ChunkResults(_, _, _)
ChunkResults(k, last, slots) ==
    IF k > last THEN <<>>
    ELSE <<slots[k]>> \o ChunkResults(k + 1, last, slots)

GatherIdle ==
    /\ UNCHANGED <<image_count, features, stats_list, component_stats_list,
                   all_images_data, calls, out_of_order, unit_failed,
                   permits>>
    /\ UNCHANGED execVars /\ UNCHANGED fnVars

\* the call: the first asyncio.gather wraps its coroutines in tasks
CallGatherWithLimit ==
    /\ pc = "idle"
    /\ \E n \in 0..MaxTasks, none \in BOOLEAN, limit \in 1..(MaxTasks + 1),
          re \in BOOLEAN :
         LET call == [endpoint |-> "gather_with_limit", n |-> n,
                      limit_is_none |-> none, limit |-> limit,
                      return_exceptions |-> re]
         IN /\ req' = call
            /\ unit' = [k \in 1..n |-> IF k \in GatherChunk(0, call)
                                       THEN "running" ELSE "created"]
            /\ slot' = [k \in 1..n |-> None]
    /\ gather_i' = 0
    /\ outputs_list' = <<>>
    /\ pc' = "gathering"
    /\ UNCHANGED response
    /\ GatherIdle

\* coroutine k returns its result
TaskReturns(k) ==
    /\ req.endpoint = "gather_with_limit"
    /\ k \in DOMAIN unit
    /\ unit[k] = "running"
    /\ unit' = [unit EXCEPT ![k] = "returned"]
    /\ slot' = [slot EXCEPT ![k] = [kind |-> "result", of |-> k]]
    /\ UNCHANGED <<pc, req, gather_i, outputs_list, response>>
    /\ GatherIdle

\* coroutine k raises
TaskRaises(k) ==
    /\ req.endpoint = "gather_with_limit"
    /\ k \in DOMAIN unit
    /\ unit[k] = "running"
    /\ slot' = [slot EXCEPT ![k] = [kind |-> "exception", of |-> k]]
    /\ IF GatherPropagates(req.return_exceptions) /\ pc = "gathering"
       THEN \* the exception leaves the gather and gather_with_limit
            /\ unit' = [j \in DOMAIN unit |->
                          IF j = k THEN "raised"
                          ELSE SiblingAfterRaise(unit[j])]
            /\ pc' = "raised"
            /\ response' = [kind |-> "exception", of |-> k]
       ELSE /\ unit' = [unit EXCEPT ![k] = "raised"]
            /\ UNCHANGED <<pc, response>>
    /\ UNCHANGED <<req, gather_i, outputs_list>>
    /\ GatherIdle

\* the current asyncio.gather completes: results.extend(batch_results), then
\* the next chunk is started or the list is returned
ChunkDone ==
    /\ req.endpoint = "gather_with_limit"
    /\ pc = "gathering"
    /\ \A k \in GatherChunk(gather_i, req) : unit[k] \in {"returned", "raised"}
    /\ LET last == IF SingleGather(req.limit_is_none, req.limit, req.n)
                   THEN req.n ELSE Min(gather_i + req.limit, req.n)
           results == outputs_list \o ChunkResults(gather_i + 1, last, slot)
       IN /\ outputs_list' = results
          /\ IF GatherLast(gather_i, req)
             THEN /\ pc' = "returned"
                  /\ response' = [kind |-> "list", results |-> results]
                  /\ UNCHANGED <<unit, gather_i>>
             ELSE /\ gather_i' = gather_i + req.limit
                  /\ unit' = [k \in DOMAIN unit |->
                                IF k \in GatherChunk(gather_i + req.limit, req)
                                THEN "running" ELSE unit[k]]
                  /\ UNCHANGED <<pc, response>>
    /\ UNCHANGED <<req, slot>>
    /\ GatherIdle

NextGather ==
    \/ CallGatherWithLimit
    \/ \E k \in 1..MaxTasks : TaskReturns(k)
    \/ \E k \in 1..MaxTasks : TaskRaises(k)
    \/ ChunkDone

SpecGather == Init /\ [][NextGather]_vars

TypeOK ==
    /\ permits \in 0..gee_max_concurrent
    /\ image_count \in 0..(MaxCatalog + 1)
    /\ waiting \in 0..MaxCalls /\ queued \in 0..gee_max_concurrent
    /\ running \in 0..executor_max_workers
    /\ orphaned \in 0..executor_max_workers
    /\ permits + queued + running + completing = gee_max_concurrent
       \/ pc # "idle"

\* =================================================================== claims
\* a multi-image vegetation-index request has returned its response
Returned == pc = "done" /\ req.endpoint \in Endpoints

\* C1: at every moment at most 15 remote calls dispatched through
\* run_in_executor_with_limit are in flight (dispatched to the worker pool and
\* not yet completed), also after awaiting callers have been cancelled.
C1_InFlightAtMostLimit == InFlight <= gee_max_concurrent

\* C2: whatever the completion order of the per-image units, the returned
\* images list is in ascending image_index order, which is the order of the
\* candidate list sorted by ascending cloud cover.
C2_ImagesAscending ==
    Returned =>
      \A i, j \in 1..Len(response.images) :
        i < j =>
          /\ response.images[i].image_index < response.images[j].image_index
          /\ response.images[i].cloud_cover <= response.images[j].cloud_cover

C2_Witness ==
    /\ Returned
    /\ out_of_order
    /\ Len(response.images) >= 2
    /\ response.images[1].cloud_cover < response.images[2].cloud_cover

C6_Scenario ==
    /\ Returned
    /\ req.max_cloud_cover = 30
    /\ req.max_images = 10
    /\ req.catalog = <<5, 35, 10>>
    /\ response.images_processed = response.total_images

RECURSIVE Survivors(_)
Survivors(k) ==
    IF k > Len(unit) THEN <<>>
    ELSE IF unit[k] = "returned"
         THEN <<features[k]>> \o Survivors(k + 1)
         ELSE Survivors(k + 1)

ReturnedIds == [i \in 1..Len(response.images) |-> response.images[i].image_id]

\* C7: in the parallel path (get_ndvi_data, get_ndmi_data), when the unit of
\* one image raises while the units of the other images succeed, the request
\* still returns successfully: the failed image is dropped, every other image
\* is returned, and images_processed is the number of surviving images.
C7_ParallelPartialFailure ==
    req.endpoint \in ParallelEndpoints =>
      /\ pc = "error" => Len(unit) = 0
      /\ pc = "done" =>
           /\ response.status = 200
           /\ ReturnedIds = Survivors(1)
           /\ response.images_processed = Len(Survivors(1))

C7_Witness ==
    /\ req.endpoint \in ParallelEndpoints
    /\ pc = "done"
    /\ \E k \in DOMAIN unit : unit[k] = "caught"
    /\ \E k \in DOMAIN unit : unit[k] = "returned"
    /\ Len(response.images) >= 1

\* C8: in the batch path (get_ndvi_data_batched, get_ndmi_data_batched), when
\* the thumbnail/download unit of one image raises while the units of the
\* other images succeed, the request still returns successfully: the failed
\* image is dropped, every other image is returned, and images_processed is
\* the number of surviving images.
C8_BatchPartialFailure ==
    req.endpoint \in BatchEndpoints =>
      /\ pc = "error" => Len(unit) = 0
      /\ pc = "done" =>
           /\ response.status = 200
           /\ ReturnedIds = Survivors(1)
           /\ response.images_processed = Len(Survivors(1))

\* C9: in the batch path the statistics of all N candidates are retrieved
\* with exactly one resolve call per statistics collection: the number of
\* statistics round trips of a request does not depend on N.
C9_OneResolvePerCollection ==
    req.endpoint \in BatchEndpoints =>
      /\ calls["stats"] <= (IF req.include_components THEN 2 ELSE 1)
      /\ pc \in {"gather", "area", "done"} =>
           calls["stats"] = (IF req.include_components THEN 2 ELSE 1)

C9_Witness ==
    /\ req.endpoint \in BatchEndpoints
    /\ pc = "done"
    /\ Len(stats_list) >= 2
    /\ ~req.include_components
    /\ calls["stats"] = 1

\* C10: batch_stats called on an empty candidate collection returns an empty
\* list and issues no resolve call to the remote platform.
C10_EmptyCollectionNoResolve ==
    (fn_out # None /\ fn_in = <<>>) =>
      /\ fn_out.stats_list = <<>>
      /\ fn_out.getInfo = 0

\* C10, as the code has it: batch_retrieve_statistics called on an empty
\* collection returns an empty list, and it issues its one resolve call as
\* for every other collection.
C10_EmptyCollectionOneResolve ==
    fn_out # None =>
      /\ Len(fn_out.stats_list) = Len(fn_in)
      /\ fn_out.getInfo = 1
      /\ fn_in = <<>> => fn_out.stats_list = <<>>

C10_Witness ==
    /\ fn_out # None
    /\ fn_in = <<>>
    /\ fn_out.stats_list = <<>>
    /\ fn_out.getInfo = 1

\* C11: the batch statistics list has one record per candidate in the
\* candidates' order, and in every assembled image record the statistics are
\* the ones computed for the candidate whose image_id the record carries.
C11_StatsOfSameCandidate ==
    req.endpoint \in BatchEndpoints =>
      /\ pc \in {"component_stats", "gather", "area", "done"} =>
           /\ Len(stats_list) = Len(features)
           /\ \A i \in DOMAIN stats_list : stats_list[i].image_id = features[i]
      /\ pc = "done" =>
           \A i \in DOMAIN response.images :
              response.images[i].stats.image_id = response.images[i].image_id

\* two assembled records whose candidates are not in catalogue order
C11_Witness ==
    /\ req.endpoint \in BatchEndpoints
    /\ pc = "done"
    /\ Len(response.images) >= 2
    /\ response.images[1].image_id > response.images[2].image_id
    /\ response.images[2].stats.image_id = response.images[2].image_id

\* a call of gather_with_limit is under way or over
GatherCall == req.endpoint = "gather_with_limit"

\* the index of the chunk coroutine k belongs to
ChunkOf(k) ==
    IF SingleGather(req.limit_is_none, req.limit, req.n) THEN 0
    ELSE (k - 1) \div req.limit

\* C12: gather_with_limit called with return_exceptions=True never raises
\* because a task failed: it returns one result slot per task in input order,
\* the slot of a failing task holds its exception, and every sibling task, in
\* the same chunk and in later chunks, has run to completion.
C12_ReturnExceptionsCapturesFailures ==
    (GatherCall /\ req.return_exceptions) =>
      /\ pc # "raised"
      /\ pc = "returned" =>
           /\ Len(response.results) = req.n
           /\ \A k \in 1..req.n :
                /\ unit[k] \in {"returned", "raised"}
                /\ response.results[k].of = k
                /\ (response.results[k].kind = "exception") <=> (unit[k] = "raised")

\* a chunked call in which a task of the first chunk raised and a task of a
\* later chunk returned its result
C12_Witness ==
    /\ GatherCall /\ req.return_exceptions
    /\ pc = "returned"
    /\ req.n = 3 /\ ~req.limit_is_none /\ req.limit = 2
    /\ response.results[1].kind = "exception"
    /\ response.results[3].kind = "result"

\* C13: gather_with_limit called without return_exceptions: when one task
\* raises, the exception is raised to the caller and the remaining tasks of
\* the gather are cancelled, so that no sibling task keeps running or is
\* started after the exception has been delivered.
C13_SiblingsCancelled ==
    (GatherCall /\ ~req.return_exceptions /\ pc = "raised") =>
      /\ response.kind = "exception"
      /\ \A k \in DOMAIN unit : unit[k] # "running"

\* C13, as the code has it: the exception is raised to the caller, the
\* siblings handed to the same asyncio.gather are not cancelled (they are
\* running or have completed), and the coroutines of later chunks are never
\* started.
C13_SiblingsKeepRunning ==
    (GatherCall /\ ~req.return_exceptions) =>
      /\ \A k \in DOMAIN unit : unit[k] # "cancelled"
      /\ pc = "returned" => \A k \in DOMAIN unit : unit[k] = "returned"
      /\ pc = "raised" =>
           /\ response.kind = "exception"
           /\ unit[response.of] = "raised"
           /\ \A k \in DOMAIN unit :
                IF ChunkOf(k) = ChunkOf(response.of)
                THEN unit[k] \in {"running", "returned", "raised"}
                ELSE IF ChunkOf(k) > ChunkOf(response.of)
                THEN unit[k] = "created"
                ELSE unit[k] = "returned"

\* the exception was delivered while a sibling of the same chunk still runs
\* and a coroutine of a later chunk was never started
C13_Witness ==
    /\ GatherCall /\ ~req.return_exceptions
    /\ pc = "raised"
    /\ \E k \in DOMAIN unit : unit[k] = "running"
    /\ \E k \in DOMAIN unit : unit[k] = "created"

\* C14: with limit None or limit >= number of tasks all tasks are started
\* under a single gather; with 1 <= limit < number of tasks consecutive
\* chunks of limit tasks are run, no task of a chunk starts before every task
\* of the previous chunk has completed (so at most limit tasks are running at
\* once), and the result list has one slot per task in input order.
C14_ChunkedGather ==
    (GatherCall /\ pc # "idle") =>
      /\ SingleGather(req.limit_is_none, req.limit, req.n) =>
           \A k \in DOMAIN unit : unit[k] # "created"
      /\ ~SingleGather(req.limit_is_none, req.limit, req.n) =>
           /\ Cardinality({k \in DOMAIN unit : unit[k] = "running"}) <= req.limit
           /\ \A j, k \in DOMAIN unit :
                (ChunkOf(j) < ChunkOf(k) /\ unit[k] # "created")
                   => unit[j] \in {"returned", "raised"}
           /\ \A k \in DOMAIN unit :
                unit[k] # "created" => ChunkOf(k) * req.limit <= gather_i
      /\ pc = "returned" =>
           /\ Len(response.results) = req.n
           /\ \A k \in 1..req.n : response.results[k].of = k

\* three tasks under limit 2: the second chunk holds the one remaining task
C14_Witness ==
    /\ GatherCall
    /\ req.n = 3 /\ ~req.limit_is_none /\ req.limit = 2
    /\ pc = "gathering"
    /\ gather_i = 2
    /\ unit = <<"returned", "returned", "running">>

\* C15: every remote platform call made while serving a request (candidate
\* count, candidate list, statistics resolve, thumbnail URL, download URL,
\* area, and the calls of the boundary-detection endpoints) is executed on a
\* worker of the executor; the event-loop thread never executes a blocking
\* remote call itself.
C15_NoBlockingCallOnEventLoop ==
    req.endpoint \in Endpoints \cup BoundaryEndpoints => calls["loop"] = 0

\* the vegetation-index requests that arrive through a handler
HandledRequest == req.endpoint \in AwaitedEndpoints \cup {"get_ndvi"}

\* C16: a vegetation-index request (batch or parallel endpoint) whose region
\* has fewer than 3 points, or whose date is unparsable, is rejected with a
\* client error (HTTP 400) before any remote platform call is issued and
\* before any concurrent unit is created.
C16_InvalidInputRejectedFirst ==
    (HandledRequest /\ (TooFewPoints(req.points) \/ ~req.date_ok)) =>
      /\ pc = "error"
      /\ response.status = 400
      /\ calls = NoCalls
      /\ unit = <<>>

\* the request has ended with the exception exc
EndedWith(exc) ==
    /\ pc = "error"
    /\ "error" \in DOMAIN response
    /\ response.error = exc

\* the candidates the search of the request finds
Candidates ==
    image_collection(req.catalog, req.max_cloud_cover, req.max_images)

\* C17: when the candidate search returns zero images, a vegetation-index
\* request ends with a client error (HTTP 400) and issues no statistics,
\* thumbnail, download or area call and no retry of the search.
C17_NoCandidatesClientError ==
    (/\ req.endpoint \in Endpoints
     /\ calls["count"] >= 1 /\ pc # "count"
     /\ ~EndedWith("EEException")
     /\ Len(Candidates) = 0) =>
      /\ EndedWith("ValueError")
      /\ req.endpoint \in AwaitedEndpoints => response.status = 400
      /\ calls = [NoCalls EXCEPT !["count"] = 1]
      /\ unit = <<>>

\* the platform holds images for the region, none below the ceiling
C17_Witness ==
    /\ req.endpoint \in AwaitedEndpoints
    /\ EndedWith("ValueError")
    /\ response.status = 400
    /\ calls["count"] = 1
    /\ Len(req.catalog) >= 1
    /\ Len(Candidates) = 0

\* C18: when the remote platform raises its domain exception during the
\* candidate search or the batch statistics resolve, the request ends with a
\* server error (HTTP 500), and no remote call is re-issued: each remote call
\* of a request is attempted at most once.
C18_PlatformErrorServerErrorNoRetry ==
    req.endpoint \in Endpoints =>
      /\ calls["count"] <= 1
      /\ calls["info"] <= 1
      /\ calls["stats"] <= (IF req.include_components THEN 2 ELSE 1)
      /\ calls["unit"] <= Len(features)
      /\ calls["area"] <= 1
      /\ EndedWith("EEException") =>
           /\ req.endpoint \in AwaitedEndpoints => response.status = 500
           /\ response.status # 200
           /\ calls["area"] = 0
           /\ calls["info"] = 0 => calls = [NoCalls EXCEPT !["count"] = 1]

\* the statistics resolve of a batch request raised
C18_Witness ==
    /\ req.endpoint \in BatchEndpoints
    /\ EndedWith("EEException")
    /\ response.status = 500
    /\ calls["stats"] = 1
    /\ calls["unit"] = 0

\* C19: when every per-image unit of a parallel-path request fails although
\* the search found total_images > 0 candidates, the request returns an
\* explicit empty-but-successful response: images is the empty list,
\* images_processed is 0 and total_images is unchanged.
C19_AllUnitsFailEmptySuccess ==
    (/\ req.endpoint \in ParallelEndpoints
     /\ Len(unit) > 0
     /\ \A k \in DOMAIN unit : unit[k] = "caught") =>
      /\ pc \in {"gather", "area", "done"}
      /\ pc \in {"area", "done"} => all_images_data = <<>>
      /\ pc = "done" =>
           /\ response.status = 200
           /\ response.images = <<>>
           /\ response.images_processed = 0
           /\ response.total_images = Len(Candidates)
           /\ response.total_images > 0

\* a get_ndvi_data request with two candidates whose units both failed
C19_Witness ==
    /\ req.endpoint = "get_ndvi_data"
    /\ pc = "done"
    /\ Len(unit) = 2
    /\ \A k \in DOMAIN unit : unit[k] = "caught"
    /\ response.images = <<>>
    /\ response.total_images = 2

\* the radar fallback of a get_farm_thumbnails request is selected
RadarSelected ==
    /\ req.endpoint = "get_farm_thumbnails"
    /\ image_count > 0
    /\ use_sar_backup(req.force_sar_backup,
                      req.catalog[Head(image_collection(req.catalog,
                                                        req.max_cloud_cover,
                                                        Len(req.catalog)))])

\* C20: when the radar fallback is selected and the radar search finds zero
\* scenes in the date range, the request fails with an error and returns no
\* result: no optical vegetation index is substituted and no partial
\* thumbnail set is returned.
C20_RadarSearchEmptyIsFatal ==
    (RadarSelected /\ req.sar_count = 0) =>
      /\ pc = "error"
      /\ response.status # 200
      /\ response.error = "ValueError"
      /\ DOMAIN response = {"status", "error"}
      /\ calls["sar_count"] = 1

\* the best optical image is at the threshold, not forced, no radar scene
C20_Witness ==
    /\ RadarSelected /\ req.sar_count = 0
    /\ ~req.force_sar_backup
    /\ pc = "error"
    /\ response.error = "ValueError"

\* a boundary detection at a valid point whose imagery search and label
\* lookup succeed and find imagery, but no labelled component at the point
NoFieldAtPoint ==
    /\ req.endpoint = "detect_farm_boundary_from_point"
    /\ QueryValid(req.latitude)
    /\ req.platform_ok
    /\ Len(image_collection(req.catalog, req.max_cloud_cover,
                            Len(req.catalog))) > 0
    /\ ~req.field_found

Clamp(x, hi) == Max(0, Min(x, hi))

\* C22: for every mean index in [-1, 1], every standard deviation >= 0 and
\* every area >= 0 the boundary confidence score equals
\* 0.5*clamp(mean/0.8,0,1) + 0.3*clamp(1 - stddev/0.3,0,1)
\* + 0.2*clamp(area_ha/10,0,1) and therefore lies in [0, 1]; it is 1.0 for
\* (0.8, 0.0, 10.0) and 0.0 for (0, 0.3, 0).  (Scores in 400ths.)
C22_ConfidenceFormula ==
    (fn_out # None /\ fn_in.fn = "confidence_score") =>
      /\ fn_out.confidence_score =
           25 * Clamp(fn_in.mean, 8) + 40 * Clamp(3 - fn_in.std, 3)
             + 8 * Clamp(fn_in.area, 10)
      /\ fn_out.confidence_score \in 0..400

\* C23: the vegetation-health category is a function of the mean index with
\* exclusive-lower, inclusive-upper breakpoints: mean > 0.6 very healthy,
\* 0.4 < mean <= 0.6 healthy, 0.2 < mean <= 0.4 moderate, 0 < mean <= 0.2
\* sparse, mean <= 0 no vegetation; and the batch helper, the parallel
\* per-image unit and the boundary service yield the same category for the
\* same mean.  (Means in tenths.)
C23_HealthBreakpoints ==
    (fn_out # None /\ fn_in.fn = "interpret") =>
      /\ fn_out.batch = fn_out.parallel
      /\ fn_out.batch = fn_out.boundary
      /\ fn_out.batch =
           (CASE fn_in.mean > 6 -> "Very healthy vegetation"
              [] 4 < fn_in.mean /\ fn_in.mean <= 6 -> "Healthy vegetation"
              [] 2 < fn_in.mean /\ fn_in.mean <= 4 -> "Moderate vegetation"
              [] 0 < fn_in.mean /\ fn_in.mean <= 2 -> "Sparse vegetation"
              [] fn_in.mean <= 0 -> "No vegetation / Water / Bare soil")

\* a mean exactly on the breakpoint 0.6 is healthy, not very healthy
C23_Witness ==
    /\ fn_out # None /\ fn_in.fn = "interpret"
    /\ fn_in.mean = 6
    /\ fn_out.batch = "Healthy vegetation"
    /\ fn_out.boundary = "Healthy vegetation"

\* the single-image methods that search one imagery source
SingleImageEndpoints == {"get_farm_thumbnails", "get_satellite_image_for_farm"}

\* the candidates whose cloud cover, read from the source's own metadata
\* field, lies below the requested ceiling
OwnFieldCandidates ==
    {i \in 1..Len(req.catalog) : req.catalog[i] < req.max_cloud_cover}

\* C24: for every supported imagery source, the cloud-cover value used to
\* filter and sort candidates and the cloud-cover value reported in the
\* response are read from that source's own metadata field
\* (CLOUDY_PIXEL_PERCENTAGE for Sentinel-2, CLOUD_COVER for Landsat): the
\* search finds exactly the candidates whose own field lies below the
\* ceiling, and a returned response reports the least of their values.
C24_CloudCoverFromOwnField ==
    (req.endpoint \in SingleImageEndpoints /\ pc \in {"done", "error"}) =>
      /\ image_count = Cardinality(OwnFieldCandidates)
      /\ pc = "done" =>
           /\ OwnFieldCandidates # {}
           /\ \A i \in OwnFieldCandidates :
                response.cloud_cover <= req.catalog[i]
           /\ \E i \in OwnFieldCandidates :
                response.cloud_cover = req.catalog[i]

\* C25: the worker pool and the semaphore are lazily created singletons:
\* get_executor and get_semaphore each create their object at most once, on
\* first use, return that same object on every later call, and neither
\* global is torn down (reset to None or replaced) afterwards.
C25_LazySingletons ==
    [][/\ created'.executor <= 1
       /\ created'.semaphore <= 1
       /\ _executor # 0 => _executor' = _executor
       /\ _gee_semaphore # 0 => _gee_semaphore' = _gee_semaphore
       /\ (_executor = 0 /\ queued' = queued) => _executor' = 0
       /\ (_gee_semaphore = 0 /\ submitted' = submitted) =>
            _gee_semaphore' = 0]_vars

\* several calls were dispatched and one of each object exists
C25_Witness ==
    /\ submitted >= 3
    /\ queued + running >= 2
    /\ _executor = 1 /\ _gee_semaphore = 1
    /\ created = [executor |-> 1, semaphore |-> 1]

\* C26: when the coroutine awaiting a call is cancelled after its job has
\* started on a worker, the job is not interrupted: it keeps its worker
\* until it finishes, and its result is discarded: it is delivered to no
\* caller, so every result awaiting delivery belongs to a caller that still
\* holds its permit.
C26_AbandonedJobRunsOnResultDiscarded ==
    [][/\ (running' < running /\ completing' = completing) =>
            /\ orphaned' = orphaned + 1
            /\ running' + orphaned' = running + orphaned
       /\ orphaned' < orphaned =>
            /\ discarded' = discarded + 1
            /\ completing' = completing
            /\ permits' = permits
       /\ permits' + queued' + running' + completing' = gee_max_concurrent]_vars

\* a job was abandoned on its worker, ran to its end, and no caller is left
\* to receive anything
C26_Witness ==
    /\ discarded >= 1
    /\ orphaned = 0 /\ completing = 0 /\ running = 0 /\ queued = 0
    /\ waiting = 0
    /\ permits = gee_max_concurrent

\* no call is waiting for a permit, queued, running or awaiting delivery
AllCallsCompleted ==
    waiting = 0 /\ queued = 0 /\ running = 0 /\ completing = 0

\* C27: for any number of concurrent calls (more than 15 included), if
\* every blocking function eventually returns or raises, every call
\* submitted through run_in_executor_with_limit eventually completes (the
\* 15-permit semaphore and the 10-worker pool never deadlock), the permit is
\* released whether the function returned or raised, and once all calls
\* have completed all 15 permits are available again.
C27_EveryCallCompletesPermitsRestored ==
    /\ [](AllCallsCompleted => permits = gee_max_concurrent)
    /\ <>[](AllCallsCompleted /\ permits = gee_max_concurrent)

\* more calls than permits were submitted, none was abandoned, and all of
\* them have completed
C27_Witness ==
    /\ submitted > gee_max_concurrent
    /\ discarded = 0 /\ orphaned = 0
    /\ AllCallsCompleted
    /\ permits = gee_max_concurrent

\* a multi-image request has returned and every remote platform call it
\* issued succeeded
AllRemoteCallsSucceeded ==
    /\ Returned
    /\ ~unit_failed
    /\ response.area = "hectares"

\* the response holds one record per candidate, in the candidates' order,
\* each with the thumbnail and the download URL generated for its candidate
OneRecordPerCandidate ==
    /\ Len(response.images) = Len(Candidates)
    /\ response.images_processed = Len(Candidates)
    /\ response.total_images = Len(Candidates)
    /\ \A i \in 1..Len(response.images) :
         /\ response.images[i].image_id = Candidates[i]
         /\ response.images[i].thumbnail = Candidates[i]
         /\ response.images[i].download = Candidates[i]

\* C28: in get_ndmi_data and get_ndmi_data_batched, when the search returns
\* n >= 1 candidates and every remote platform call succeeds, the response
\* contains exactly n image records (images_processed == total_images == n),
\* each with its thumbnail and download URL.
C28_NdmiOneRecordPerCandidate ==
    (/\ req.endpoint \in Endpoints \ NDVIEndpoints
     /\ AllRemoteCallsSucceeded
     /\ Len(Candidates) >= 1) => OneRecordPerCandidate

\* C29: in get_ndvi_data and get_ndvi_data_batched, when the search returns
\* n >= 1 candidates and every remote platform call succeeds, the response
\* contains exactly n image records (images_processed == total_images == n),
\* and record i carries the thumbnail and download URL produced by the unit
\* that was created for candidate i.
C29_NdviOneRecordPerCandidate ==
    (/\ req.endpoint \in NDVIEndpoints
     /\ AllRemoteCallsSucceeded
     /\ Len(Candidates) >= 1) => OneRecordPerCandidate

\* a batch NDVI request over three candidates whose units finished out of
\* their order
C29_Witness ==
    /\ req.endpoint = "get_ndvi_data_batched"
    /\ AllRemoteCallsSucceeded
    /\ out_of_order
    /\ Len(Candidates) = 3
    /\ Len(response.images) = 3
    /\ response.images[3].thumbnail = Candidates[3]

\* C30: the handler get_ndvi, given a region of at least 3 points and a
\* service call in which every remote call succeeds, returns a success
\* response whose data is the completed result of get_ndvi_data: it never
\* answers such a request with an error, and its answer carries the images
\* of the service's result.
C30_GetNdviReturnsServiceResult ==
    (/\ req.endpoint = "get_ndvi"
     /\ ~TooFewPoints(req.points)
     /\ ~unit_failed
     /\ pc \in {"done", "error"}) =>
      /\ pc = "done"
      /\ response.status = 200
      /\ "images" \in DOMAIN response

====
